---- MODULE Spec2Model ----
(***************************************************************************)
(* Model of the transport core of the linstor python client                *)
(* (src/linstor/linstorapi.py): AtomicInt, LinstorNetClient (connect,      *)
(* handshake, disconnect, the receiver thread run(), send_msgs,            *)
(* wait_for_result) and Linstor.connect.                                   *)
(*                                                                         *)
(* Bytes are naturals 0..255, a buffer is a sequence of bytes.  The        *)
(* protobuf library is external: a serialized MsgHeader is abstracted to   *)
(* the two bytes <<api_call code, msg_id>> and a serialized body message   *)
(* to one byte.  The 16 byte linstor header and the varint delimiters are  *)
(* modelled byte for byte.                                                 *)
(***************************************************************************)
EXTENDS Integers, Sequences, FiniteSets, TLC

\* ------------------------------------------------------------------ bounds
MaxMsgs == 2            \* message ids handed out by the model
MaxServerFrames == 2    \* frames the server sends after a handshake
MaxConnects == 2        \* calls of Linstor.connect
ShortWrite == 10        \* bytes a congested socket accepts in one send()
MaxRetCode == 255       \* return codes classified: 0..MaxRetCode
MaxPayload == 3         \* bytes of a payload given to _split_proto_msgs
HeaderCut == 7          \* where the network may cut a frame in two segments

\* ------------------------------------------------- api call codes (tags)
API_VERSION == 1
API_REPLY == 2
API_LST_NODE == 3
API_CRT_NODE == 4
BOGUS_TAG == 9
IO_SIZE == 4096

Callers == {"c1", "c2"}
NoThread == "nobody"
Receiver == "rcv"
Versions == {1, 2}

Min(a, b) == IF a < b THEN a ELSE b

\* the sequence s without its first k elements (python s[k:])
Drop(s, k) == IF k >= Len(s) THEN << >> ELSE SubSeq(s, k + 1, Len(s))

\* the first k elements of s (python s[:k])
Take(s, k) == SubSeq(s, 1, Min(k, Len(s)))

\* ------------------------------------------------------------ frame codec
\* struct.pack("!I", n)
PackU32(n) ==
    << (n \div 16777216) % 256, (n \div 65536) % 256, (n \div 256) % 256, n % 256 >>

\* Lengths of 2^28 and more are represented by 2^28: no buffer of the model
\* is that long, so every comparison and slice comes out as in the code.
LenCap == 2 ^ 28

\* struct.unpack("!xxxxIxxxxxxxx", header)
_parse_payload_length(header) ==
    IF header[5] >= 16 THEN LenCap
    ELSE header[5] * 16777216 + header[6] * 65536 + header[7] * 256 + header[8]

\* encoder._VarintBytes(n)
RECURSIVE _VarintBytes(_)
_VarintBytes(n) ==
    IF n < 128 THEN << n >> ELSE << 128 + (n % 128) >> \o _VarintBytes(n \div 128)

\* decoder._DecodeVarint32(buffer, pos): pos is the 0-based python index.
\* Returns [ok, val, pos]; ok = FALSE stands for the exception raised when
\* the varint runs off the buffer or is longer than 10 bytes.
\* ((b & 0x7f) << shift) & 0xffffffff, capped at LenCap
VarintGroup(b, shift) ==
    IF shift <= 21 THEN (b % 128) * (2 ^ shift)
    ELSE IF shift = 28 /\ (b % 16) # 0 THEN LenCap
    ELSE 0

RECURSIVE DecodeVarintFrom(_, _, _, _)
DecodeVarintFrom(buffer, pos, shift, result) ==
    IF pos >= Len(buffer) THEN [ok |-> FALSE, val |-> 0, pos |-> pos]
    ELSE LET b == buffer[pos + 1]
             r == Min(result + VarintGroup(b, shift), LenCap)
         IN  IF b < 128 THEN [ok |-> TRUE, val |-> r, pos |-> pos + 1]
             ELSE IF shift + 7 >= 64 THEN [ok |-> FALSE, val |-> 0, pos |-> pos + 1]
             ELSE DecodeVarintFrom(buffer, pos + 1, shift + 7, r)

_DecodeVarint32(buffer, pos) == DecodeVarintFrom(buffer, pos, 0, 0)

\* LinstorNetClient._split_proto_msgs: [ok, msgs]; a python slice past the
\* end of the payload is silently cut short.
RECURSIVE SplitFrom(_, _, _)
SplitFrom(payload, n, pb_msgs) ==
    IF n >= Len(payload) THEN [ok |-> TRUE, msgs |-> pb_msgs]
    ELSE LET d == _DecodeVarint32(payload, n)
         IN  IF ~d.ok THEN [ok |-> FALSE, msgs |-> pb_msgs]
             ELSE SplitFrom(payload, d.pos + d.val,
                            Append(pb_msgs, Take(Drop(payload, d.pos), d.val)))

_split_proto_msgs(payload) == SplitFrom(payload, 0, << >>)

\* MsgHeader.SerializeToString (abstracted protobuf encoding)
SerializeHeader(api_call, id) == << api_call, id >>

\* _parse_proto_msg(MsgHeader, data): ok = FALSE stands for a DecodeError
_parse_proto_msg(data) ==
    IF Len(data) = 2 THEN [ok |-> TRUE, api_call |-> data[1], msg_id |-> data[2]]
    ELSE [ok |-> FALSE, api_call |-> 0, msg_id |-> 0]

\* _parse_proto_msgs(type_tuple, data): every body message parsed in order
ParseBody(msg) == IF Len(msg) = 0 THEN 0 ELSE msg[1]
_parse_proto_msgs(data) == [i \in 1..Len(data) |-> ParseBody(data[i])]

\* delim + serialized for every message of a list
RECURSIVE Delimited(_)
Delimited(msgs) ==
    IF Len(msgs) = 0 THEN << >>
    ELSE _VarintBytes(Len(Head(msgs))) \o Head(msgs) \o Delimited(Tail(msgs))

\* the frame send_msgs builds: h_type + h_payload_length + h_reserved + msg_serialized
EncodeFrame(api_call, id, bodies) ==
    LET msg_serialized == Delimited(<< SerializeHeader(api_call, id) >> \o bodies)
    IN  PackU32(0) \o PackU32(Len(msg_serialized)) \o PackU32(0) \o PackU32(0)
        \o msg_serialized

\* the reply_map of run()
reply_map == {API_REPLY, API_LST_NODE}

\* ------------------------------------------------- ApiCallResponse.is_*
\* the category masks of sharedconsts: three disjoint masks on the top bits
\* of the return code, here of a return code of 8 bits instead of 64
MASK_ERROR == 128
MASK_WARN == 64
MASK_INFO == 32

\* the operator & of two return codes
RECURSIVE BitAnd(_, _)
BitAnd(a, b) ==
    IF a = 0 \/ b = 0 THEN 0
    ELSE (a % 2) * (b % 2) + 2 * BitAnd(a \div 2, b \div 2)

\* self.ret_code & apiconsts.MASK_ERROR == apiconsts.MASK_ERROR
is_error(rc) == BitAnd(rc, MASK_ERROR) = MASK_ERROR

\* self.ret_code & apiconsts.MASK_WARN == apiconsts.MASK_WARN
is_warning(rc) == BitAnd(rc, MASK_WARN) = MASK_WARN

\* self.ret_code & apiconsts.MASK_INFO == apiconsts.MASK_INFO
is_info(rc) == BitAnd(rc, MASK_INFO) = MASK_INFO

\* not self.is_error() and not self.is_warning() and not self.is_info()
is_success(rc) == ~is_error(rc) /\ ~is_warning(rc) /\ ~is_info(rc)

\* the is_* methods that return True for the return code
ClassesOf(rc) ==
    {n \in {"is_error", "is_warning", "is_info", "is_success"} :
        \/ n = "is_error" /\ is_error(rc)
        \/ n = "is_warning" /\ is_warning(rc)
        \/ n = "is_info" /\ is_info(rc)
        \/ n = "is_success" /\ is_success(rc)}

\* ------------------------------------------------------------------ state
VARIABLES
    socket,        \* self._socket: "none" or "open"
    api_version,   \* self._api_version, 0 is None
    cur_msg_id,    \* self._cur_msg_id.val
    ai_lock,       \* owner of self._cur_msg_id.lock
    slock,         \* owner of self._slock (the lock of self._cv_sock too)
    replies,       \* self._replies: msg_id -> list of parsed replies
    rcv_pc,        \* position of the receiver thread in run()
    package,       \* run(): bytes of the package being assembled
    exp_pkg_len,   \* run(): expected payload length, 0 is unknown
    pc,            \* position of every caller thread
    val,           \* get_and_inc(): the local val
    msg_id,        \* send_msgs(): hdr_msg.msg_id
    full_msg,      \* send_msgs(): the frame
    sent,          \* send_msgs(): bytes counted as sent
    result,        \* what wait_for_result returned
    err,           \* the exception that ended the last failed call
    conn_pc,       \* position of the thread in Linstor.connect
    api_msg_data,  \* _read_api_version_blocking(): bytes read
    conn_result,   \* how the last connect ended
    wire,          \* bytes the open socket accepted from the client
    rx,            \* bytes the socket holds for recv()
    net,           \* bytes of the server still in the network
    peer,          \* "up", "eof" (server closed) or "reset" (I/O error)
    advertised,    \* version in the first frame of the connection, 0 if none
    srv_frames,    \* frames the server sent since the handshake frame
    connects,      \* calls of Linstor.connect so far
    allocs,        \* history: values get_and_inc read, in order
    sentlog,       \* history: frames completely written, in wire order
    deposits,      \* history: <<msg_id of the frame, reply list>> deposited
    last,          \* history: what the receiver did with its last full package
    ret_code,      \* ApiCallResponse.ret_code of the response being classified
    classes,       \* the is_* predicates found true of it, {} before the calls
    payload,       \* the argument of a call of _split_proto_msgs
    split          \* << what the call returned >>, << >> before the call

clientVars == << socket, api_version, cur_msg_id, ai_lock, slock, replies >>
rcvVars    == << rcv_pc, package, exp_pkg_len >>
callVars   == << pc, val, msg_id, full_msg, sent, result, err >>
connVars   == << conn_pc, api_msg_data, conn_result, connects >>
envVars    == << wire, rx, net, peer, advertised, srv_frames >>
histVars   == << allocs, sentlog, deposits, last >>
respVars   == << ret_code, classes, payload, split >>
vars == << clientVars, rcvVars, callVars, connVars, envVars, histVars, respVars >>

\* LinstorNetClient.__init__ and AtomicInt.__init__(1); no thread started
Init ==
    /\ socket = "none"
    /\ api_version = 0
    /\ cur_msg_id = 1
    /\ ai_lock = NoThread
    /\ slock = NoThread
    /\ replies = << >>
    /\ rcv_pc = "init"
    /\ package = << >>
    /\ exp_pkg_len = 0
    /\ pc = [c \in Callers |-> "idle"]
    /\ val = [c \in Callers |-> 0]
    /\ msg_id = [c \in Callers |-> 0]
    /\ full_msg = [c \in Callers |-> << >>]
    /\ sent = [c \in Callers |-> 0]
    /\ result = [c \in Callers |-> << >>]
    /\ err = [c \in Callers |-> "none"]
    /\ conn_pc = "idle"
    /\ api_msg_data = << >>
    /\ conn_result = "none"
    /\ wire = << >>
    /\ rx = << >>
    /\ net = << >>
    /\ peer = "up"
    /\ advertised = 0
    /\ srv_frames = 0
    /\ connects = 0
    /\ allocs = << >>
    /\ sentlog = << >>
    /\ deposits = {}
    /\ last = "none"
    /\ ret_code = 0
    /\ classes = {}
    /\ payload = << >>
    /\ split = << >>

\* ------------------------------------------------------------------ locks
\* get_and_inc without its lock
AtomicIntNoLock(t) == TRUE

\* threading.RLock of AtomicInt: free, or re-entered by its owner
AtomicIntCanAcquire(t) == ai_lock = NoThread \/ ai_lock = t

\* self._slock = threading.RLock(); self._cv_sock = Condition(self._slock)
SlockCanAcquire(t) == slock = NoThread \/ slock = t

\* a wait loop that does not look at the connection
connectedAlways == TRUE

\* the property LinstorNetClient.connected
connected == socket # "none"

\* ----------------------------------------------------- callers: send_msgs
\* what the facade method of the caller sends: node_list() a header only,
\* node_create() a header and one MsgCrtNode
ApiCallOf(c) == IF c = "c1" THEN API_LST_NODE ELSE API_CRT_NODE
BodiesOf(c) == IF c = "c1" THEN << >> ELSE << << 42 >> >>

\* get_and_inc that forgets to advance
GetAndIncNoInc(v) == v

\* AtomicInt.get_and_inc: self.val += 1
GetAndIncNext(v) == v + 1

\* get_and_inc, first half: take the lock, val = self.val
GetAndIncEnter(c) ==
    /\ pc[c] \in {"idle", "sent", "returned", "failed"}
    /\ cur_msg_id <= MaxMsgs
    /\ AtomicIntCanAcquire(c)
    /\ ai_lock' = c
    /\ val' = [val EXCEPT ![c] = cur_msg_id]
    /\ pc' = [pc EXCEPT ![c] = "ai_inc"]
    /\ result' = [result EXCEPT ![c] = << >>]
    /\ allocs' = Append(allocs, cur_msg_id)
    /\ UNCHANGED << socket, api_version, cur_msg_id, slock, replies, rcvVars,
                    msg_id, full_msg, sent, err, connVars, envVars,
                    sentlog, deposits, last, respVars >>

\* get_and_inc, second half, and send_msgs up to the frame being built
GetAndIncExit(c) ==
    /\ pc[c] = "ai_inc"
    /\ cur_msg_id' = GetAndIncNext(cur_msg_id)
    /\ ai_lock' = NoThread
    /\ msg_id' = [msg_id EXCEPT ![c] = val[c]]
    /\ full_msg' = [full_msg EXCEPT ![c] = EncodeFrame(ApiCallOf(c), val[c], BodiesOf(c))]
    /\ sent' = [sent EXCEPT ![c] = 0]
    /\ pc' = [pc EXCEPT ![c] = "lock"]
    /\ UNCHANGED << socket, api_version, slock, replies, rcvVars, val,
                    result, err, connVars, envVars, histVars, respVars >>

\* what one self._socket.send(full_msg) of the loop offers to the socket
SendOffer(msg, nsent) == msg

\* with self._slock: (entered by the first iteration) and one iteration of
\*     while sent < msg_len: sent += self._socket.send(full_msg)
\* in which the socket accepts k bytes; the lock is kept between two
\* iterations and released after the last
SendIter(c, k) ==
    /\ \/ pc[c] = "lock" /\ SlockCanAcquire(c)
       \/ pc[c] = "sending"
    /\ IF socket = "none"
       THEN \* None has no attribute send
            /\ err' = [err EXCEPT ![c] = "AttributeError"]
            /\ pc' = [pc EXCEPT ![c] = "failed"]
            /\ slock' = NoThread
            /\ UNCHANGED << sent, wire, sentlog >>
       ELSE /\ wire' = wire \o Take(SendOffer(full_msg[c], sent[c]), k)
            /\ sent' = [sent EXCEPT ![c] = sent[c] + k]
            /\ IF sent[c] + k >= Len(full_msg[c])
               THEN /\ pc' = [pc EXCEPT ![c] = "sent"]
                    /\ slock' = NoThread
                    /\ sentlog' = Append(sentlog, [id |-> msg_id[c], c |-> c,
                                                   conn |-> connects])
               ELSE /\ pc' = [pc EXCEPT ![c] = "sending"]
                    /\ slock' = c
                    /\ UNCHANGED sentlog
            /\ UNCHANGED err
    /\ UNCHANGED << socket, api_version, cur_msg_id, ai_lock, replies, rcvVars,
                    val, msg_id, full_msg, result, connVars, rx, net, peer,
                    advertised, srv_frames, allocs, deposits, last, respVars >>

\* socket.send accepts all the bytes it is offered
SendWrite(c) == SendIter(c, Len(SendOffer(full_msg[c], sent[c])))

\* socket.send of a congested socket accepts only ShortWrite bytes
SendShort(c) ==
    /\ socket # "none"
    /\ ShortWrite < Len(SendOffer(full_msg[c], sent[c]))
    /\ SendIter(c, ShortWrite)

\* self._socket.send raises socket.error: the buffer of the non-blocking
\* socket is full after a short write, or the peer is gone
SendError(c) ==
    /\ \/ pc[c] = "lock" /\ SlockCanAcquire(c) /\ peer # "up"
       \/ pc[c] = "sending"
    /\ socket # "none"
    /\ err' = [err EXCEPT ![c] = "socket.error"]
    /\ pc' = [pc EXCEPT ![c] = "failed"]
    /\ slock' = NoThread
    /\ UNCHANGED << socket, api_version, cur_msg_id, ai_lock, replies, rcvVars,
                    val, msg_id, full_msg, sent, result, connVars, envVars,
                    histVars, respVars >>

\* ---------------------------------------------- callers: wait_for_result
\* the key wait_for_result looks up and pops
WaitKey(id) == id

\* a lookup that leaves the entry in the table
PopKeepsEntry(table, key) == table

\* self._replies.pop(msg_id): the table without the key
Pop(table, key) == [k \in DOMAIN table \ {key} |-> table[k]]

\* with self._cv_sock:
WaitEnter(c) ==
    /\ pc[c] = "sent"
    /\ SlockCanAcquire(c)
    /\ slock' = c
    /\ pc' = [pc EXCEPT ![c] = "wait_loop"]
    /\ UNCHANGED << socket, api_version, cur_msg_id, ai_lock, replies, rcvVars,
                    val, msg_id, full_msg, sent, result, err, connVars,
                    envVars, histVars, respVars >>

\* a wait(1) that suspends the thread without giving up the lock
WaitLoopKeepsLock(c) ==
    /\ pc[c] = "wait_loop"
    /\ IF WaitKey(msg_id[c]) \in DOMAIN replies
       THEN /\ result' = [result EXCEPT ![c] = replies[WaitKey(msg_id[c])]]
            /\ replies' = Pop(replies, WaitKey(msg_id[c]))
            /\ pc' = [pc EXCEPT ![c] = "returned"]
            /\ slock' = NoThread
       ELSE IF ~connected
       THEN /\ result' = [result EXCEPT ![c] = << >>]
            /\ pc' = [pc EXCEPT ![c] = "returned"]
            /\ slock' = NoThread
            /\ UNCHANGED replies
       ELSE /\ pc' = [pc EXCEPT ![c] = "cv_wait"]
            /\ slock' = c
            /\ UNCHANGED << result, replies >>
    /\ UNCHANGED << socket, api_version, cur_msg_id, ai_lock, rcvVars, val,
                    msg_id, full_msg, sent, err, connVars, envVars, histVars, respVars >>

\* one evaluation of the loop of wait_for_result, the lock held:
\*   while msg_id not in self._replies:
\*       if not self.connected: return []
\*       self._cv_sock.wait(1)
\*   return self._replies.pop(msg_id)
\* wait(1) releases the lock and suspends the thread ("cv_wait")
WaitLoop(c) ==
    /\ pc[c] = "wait_loop"
    /\ IF WaitKey(msg_id[c]) \in DOMAIN replies
       THEN /\ result' = [result EXCEPT ![c] = replies[WaitKey(msg_id[c])]]
            /\ replies' = Pop(replies, WaitKey(msg_id[c]))
            /\ pc' = [pc EXCEPT ![c] = "returned"]
       ELSE IF ~connected
       THEN /\ result' = [result EXCEPT ![c] = << >>]
            /\ pc' = [pc EXCEPT ![c] = "returned"]
            /\ UNCHANGED replies
       ELSE /\ pc' = [pc EXCEPT ![c] = "cv_wait"]
            /\ UNCHANGED << result, replies >>
    /\ slock' = NoThread
    /\ UNCHANGED << socket, api_version, cur_msg_id, ai_lock, rcvVars, val,
                    msg_id, full_msg, sent, err, connVars, envVars, histVars, respVars >>

\* wait(1) returns, notified or after the poll interval, the lock taken again
WaitWake(c) ==
    /\ pc[c] = "cv_wait"
    /\ SlockCanAcquire(c)
    /\ slock' = c
    /\ pc' = [pc EXCEPT ![c] = "wait_loop"]
    /\ UNCHANGED << socket, api_version, cur_msg_id, ai_lock, replies, rcvVars,
                    val, msg_id, full_msg, sent, result, err, connVars,
                    envVars, histVars, respVars >>

\* ------------------------------------------------- connect and disconnect
\* a disconnect that also empties the reply table
disconnectDropsReplies ==
    /\ conn_pc = "idle"
    /\ socket # "none"
    /\ SlockCanAcquire("main")
    /\ socket' = "none"
    /\ replies' = << >>
    /\ rx' = << >>
    /\ net' = << >>
    /\ UNCHANGED << api_version, cur_msg_id, ai_lock, slock, rcvVars,
                    callVars, connVars, wire, peer, advertised, srv_frames,
                    histVars, respVars >>

\* LinstorNetClient.disconnect
disconnect ==
    /\ conn_pc = "idle"
    /\ socket # "none"
    /\ SlockCanAcquire("main")
    /\ socket' = "none"
    /\ rx' = << >>
    /\ net' = << >>
    /\ UNCHANGED << api_version, cur_msg_id, ai_lock, slock, replies, rcvVars,
                    callVars, connVars, wire, peer, advertised, srv_frames,
                    histVars, respVars >>

\* Linstor.connect -> LinstorNetClient.connect up to socket.create_connection,
\* called while no receiver thread of this client is running
ConnectStart ==
    /\ conn_pc = "idle"
    /\ socket = "none"
    /\ rcv_pc \in {"init", "done", "crashed"}
    /\ connects < MaxConnects
    /\ connects' = connects + 1
    /\ \/ \* the connection is made, the socket is stored before the handshake
          /\ socket' = "open"
          /\ conn_pc' = "handshake"
          /\ conn_result' = "none"
       \/ \* socket.error: self._socket = None, LinstorError
          /\ socket' = "none"
          /\ conn_pc' = "idle"
          /\ conn_result' = "LinstorError"
    /\ api_msg_data' = << >>
    /\ wire' = << >>
    /\ rx' = << >>
    /\ net' = << >>
    /\ peer' = "up"
    /\ advertised' = 0
    /\ srv_frames' = 0
    /\ UNCHANGED << api_version, cur_msg_id, ai_lock, slock, replies, rcvVars,
                    callVars, histVars, respVars >>

\* the loops of _read_api_version_blocking still want bytes
HandshakeNeedsMore(data) ==
    IF Len(data) < 16 THEN TRUE
    ELSE Len(data) < _parse_payload_length(Take(data, 16)) + 16

\* api_msg_data += self._socket.recv(self.IO_SIZE), blocking
HandshakeRecv ==
    /\ conn_pc = "handshake"
    /\ HandshakeNeedsMore(api_msg_data)
    /\ rx # << >>
    /\ api_msg_data' = api_msg_data \o Take(rx, IO_SIZE)
    /\ rx' = Drop(rx, IO_SIZE)
    /\ UNCHANGED << clientVars, rcvVars, callVars, conn_pc, conn_result,
                    connects, wire, net, peer, advertised, srv_frames, histVars, respVars >>

\* the blocking recv times out: socket.timeout is a socket.error, so
\* connect sets self._socket = None and raises LinstorError
HandshakeTimeout ==
    /\ conn_pc = "handshake"
    /\ HandshakeNeedsMore(api_msg_data)
    /\ rx = << >>
    /\ socket' = "none"
    /\ conn_pc' = "idle"
    /\ conn_result' = "LinstorError"
    /\ net' = << >>
    /\ UNCHANGED << api_version, cur_msg_id, ai_lock, slock, replies, rcvVars,
                    callVars, api_msg_data, connects, wire, rx, peer,
                    advertised, srv_frames, histVars, respVars >>

\* _parse_api_version: the version is stored only while none is stored
_parse_api_version(stored, data) == IF stored = 0 THEN ParseBody(data) ELSE stored

\* the rest of _read_api_version_blocking, as a result:
\* [ok, exc, api_version]
ReadApiVersion(data, stored) ==
    LET s == _split_proto_msgs(Drop(data, 16))
        hdr == _parse_proto_msg(s.msgs[1])
    IN  IF ~s.ok THEN [ok |-> FALSE, exc |-> "DecodeError", api_version |-> stored]
        ELSE IF Len(s.msgs) = 0
        THEN [ok |-> FALSE, exc |-> "AssertionError", api_version |-> stored]
        ELSE IF ~hdr.ok
        THEN [ok |-> FALSE, exc |-> "DecodeError", api_version |-> stored]
        ELSE IF hdr.api_call # API_VERSION
        THEN [ok |-> FALSE, exc |-> "AssertionError", api_version |-> stored]
        ELSE IF Len(s.msgs) < 2
        THEN [ok |-> FALSE, exc |-> "IndexError", api_version |-> stored]
        ELSE [ok |-> TRUE, exc |-> "none",
              api_version |-> _parse_api_version(stored, s.msgs[2])]

\* the frame is complete: parse it; then setblocking(0), return True and
\* Linstor.connect starts the receiver thread (a thread starts only once).
\* An exception that is no socket.error leaves self._socket as it is.
HandshakeFinish ==
    /\ conn_pc = "handshake"
    /\ ~HandshakeNeedsMore(api_msg_data)
    /\ LET r == ReadApiVersion(api_msg_data, api_version)
       IN  /\ api_version' = r.api_version
           /\ conn_result' = IF r.ok THEN "True" ELSE r.exc
           /\ rcv_pc' = IF r.ok /\ rcv_pc = "init" THEN "select" ELSE rcv_pc
    /\ conn_pc' = "idle"
    /\ UNCHANGED << socket, cur_msg_id, ai_lock, slock, replies, package,
                    exp_pkg_len, callVars, api_msg_data, connects, envVars,
                    histVars, respVars >>

\* ------------------------------------------------------------- the server
\* the first frame a server may send on a new connection
HelloFrames ==
    { EncodeFrame(API_VERSION, 0, << << v >> >>) : v \in Versions }
    \cup { EncodeFrame(BOGUS_TAG, 0, << << 1 >> >>), EncodeFrame(API_VERSION, 0, << >>) }

\* the version a first frame advertises, -1 if it advertises none
AdvertisedBy(f) ==
    LET s == _split_proto_msgs(Drop(f, 16))
    IN  IF Len(s.msgs) = 2 /\ s.msgs[1][1] = API_VERSION THEN s.msgs[2][1] ELSE 0 - 1

\* what the server answers to the request with the given id
ReplyBody(id) == 10 + id

\* the frames a server may send after the first one
\* a reply to a request that was written to the socket, a frame with an
\* unknown tag, or the version frame once more
ServerFrames ==
    { EncodeFrame(API_REPLY, sentlog[i].id, << << ReplyBody(sentlog[i].id) >> >>) :
        i \in 1..Len(sentlog) }
    \cup { EncodeFrame(BOGUS_TAG, 0, << >>), EncodeFrame(API_VERSION, 0, << << 1 >> >>) }

\* where the network cuts a frame: the first part arrives, the rest is late
Cuts(f) == {HeaderCut, Len(f)}

\* the server accepts and sends its first frame
ServerHello ==
    /\ conn_pc = "handshake"
    /\ advertised = 0
    /\ \E f \in HelloFrames : \E k \in Cuts(f) :
        /\ rx' = rx \o Take(f, k)
        /\ net' = Drop(f, k)
        /\ advertised' = AdvertisedBy(f)
    /\ UNCHANGED << clientVars, rcvVars, callVars, connVars, wire, peer,
                    srv_frames, histVars, respVars >>

\* a late segment arrives
NetDeliver ==
    /\ net # << >>
    /\ socket # "none"
    /\ rx' = rx \o net
    /\ net' = << >>
    /\ UNCHANGED << clientVars, rcvVars, callVars, connVars, wire, peer,
                    advertised, srv_frames, histVars, respVars >>

\* the server writes frame f on the established connection; the first k
\* bytes arrive now, the rest is late
ServerWrite(f, k) ==
    /\ conn_pc = "idle"
    /\ socket # "none"
    /\ peer = "up"
    /\ advertised # 0
    /\ net = << >>
    /\ srv_frames < MaxServerFrames
    /\ srv_frames' = srv_frames + 1
    /\ rx' = rx \o Take(f, k)
    /\ net' = Drop(f, k)
    /\ UNCHANGED << clientVars, rcvVars, callVars, connVars, wire, peer,
                    advertised, histVars, respVars >>

\* the server sends a frame and it arrives in one piece
ServerSend == \E f \in ServerFrames : ServerWrite(f, Len(f))

\* the server sends a frame and the network cuts it
ServerSendSplit == \E f \in ServerFrames : HeaderCut < Len(f) /\ ServerWrite(f, HeaderCut)

\* a frame whose header declares a payload of 0 bytes: the header alone
EmptyFrame == PackU32(0) \o PackU32(0) \o << 0, 0, 0, 0, 0, 0, 0, 0 >>

\* the server sends a frame without payload
ServerSendEmpty == ServerWrite(EmptyFrame, Len(EmptyFrame))

\* the server sends a frame, none of it has arrived yet, and the receiver
\* has taken all the bytes of the frames before it
ServerSendLate ==
    /\ rx = << >>
    /\ package = << >>
    /\ rcv_pc # "recv"
    /\ \E f \in ServerFrames : ServerWrite(f, 0)

\* a part of the late bytes arrives
NetDeliverPart ==
    /\ socket # "none"
    /\ \E k \in 1..(Len(net) - 1) :
        /\ rx' = rx \o Take(net, k)
        /\ net' = Drop(net, k)
    /\ UNCHANGED << clientVars, rcvVars, callVars, connVars, wire, peer,
                    advertised, srv_frames, histVars, respVars >>

\* the server closes the connection ("eof") or the connection breaks ("reset")
ServerClose ==
    /\ conn_pc = "idle"
    /\ socket # "none"
    /\ peer = "up"
    /\ advertised # 0
    /\ net = << >>
    /\ peer' \in {"eof", "reset"}
    /\ UNCHANGED << clientVars, rcvVars, callVars, connVars, wire, rx, net,
                    advertised, srv_frames, histVars, respVars >>

\* ------------------------------------------------ the receiver thread: run
\* select.select([self._socket], [], [self._socket], 2) has something to read
Readable == rx # << >> \/ peer # "up"

\* while self._socket: and select: the thread leaves select with the socket
\* in rds.  (After the 2 s timeout it comes back here.)  Once disconnect()
\* has closed the socket and set it to None the loop ends, or select raises,
\* depending on when that happened.
RcvSelect ==
    /\ rcv_pc = "select"
    /\ IF socket = "none" THEN rcv_pc' \in {"done", "crashed"}
       ELSE Readable /\ rcv_pc' = "lock"
    /\ UNCHANGED << clientVars, package, exp_pkg_len, callVars, connVars,
                    envVars, histVars, respVars >>

\* the receiver without its test of the socket under the lock
RcvLockNoCheck ==
    /\ rcv_pc = "lock"
    /\ SlockCanAcquire(Receiver)
    /\ rcv_pc' = "recv"
    /\ slock' = Receiver
    /\ UNCHANGED << socket, api_version, cur_msg_id, ai_lock, replies, package,
                    exp_pkg_len, callVars, connVars, envVars, histVars, respVars >>

\* for sock in rds: with self._slock: if self._socket is None: break
RcvLock ==
    /\ rcv_pc = "lock"
    /\ SlockCanAcquire(Receiver)
    /\ IF socket = "none"
       THEN /\ rcv_pc' = "select"
            /\ UNCHANGED slock
       ELSE /\ rcv_pc' = "recv"
            /\ slock' = Receiver
    /\ UNCHANGED << socket, api_version, cur_msg_id, ai_lock, replies, package,
                    exp_pkg_len, callVars, connVars, envVars, histVars, respVars >>

\* exp_pkg_len after: if pkg_len > 15 and exp_pkg_len == 0: exp_pkg_len = ...
ExpectedLength(pkg, exp) ==
    IF Len(pkg) > 15 /\ exp = 0 THEN _parse_payload_length(Take(pkg, 16)) ELSE exp

\* a length test that forgets the 16 bytes of the header
FullPackageNoHeader(pkg, exp) == exp # 0 /\ Len(pkg) >= exp

\* if exp_pkg_len and pkg_len == (exp_pkg_len + 16)
FullPackage(pkg, exp) == exp # 0 /\ Len(pkg) = exp + 16

\* replies stored one key off
DepositKeyOffByOne(hdr) == hdr.msg_id + 1

\* the key under which run() stores the replies of a frame
DepositKey(hdr) == hdr.msg_id

\* self._replies[key] = value
Put(table, key, value) ==
    [k \in DOMAIN table \cup {key} |-> IF k = key THEN value ELSE table[k]]

\* what run() does with a full package: [kind, id, replies, api_version];
\* kind "crash" is an exception that ends the thread
RunFrame(pkg, stored) ==
    LET s == _split_proto_msgs(Drop(pkg, 16))
        hdr == _parse_proto_msg(s.msgs[1])
        none == [kind |-> "crash", id |-> 0, replies |-> << >>, api_version |-> stored]
    IN  IF ~s.ok THEN none
        ELSE IF Len(s.msgs) = 0 THEN none
        ELSE IF ~hdr.ok THEN none
        ELSE IF hdr.api_call = API_VERSION
        THEN \* self._parse_api_version(msgs[1]); assert False
             [none EXCEPT !.kind = "version", !.api_version =
                 IF Len(s.msgs) < 2 THEN stored ELSE _parse_api_version(stored, s.msgs[2])]
        ELSE IF hdr.api_call \in reply_map
        THEN [kind |-> "deposit", id |-> DepositKey(hdr),
              replies |-> _parse_proto_msgs(Tail(s.msgs)), api_version |-> stored]
        ELSE [kind |-> "unknown", id |-> 0, replies |-> << >>, api_version |-> stored]

\* the id in the header sub-message of a full package
FrameMsgId(pkg) == _parse_proto_msg(_split_proto_msgs(Drop(pkg, 16)).msgs[1]).msg_id

\* read = self._socket.recv(4096) and the rest of the body of the loop,
\* the lock held; an exception releases the lock and ends the thread
RcvRecv ==
    /\ rcv_pc = "recv"
    /\ IF peer = "reset" /\ rx = << >>
       THEN \* recv raises socket.error
            /\ rcv_pc' = "crashed"
            /\ package' = << >>
            /\ exp_pkg_len' = 0
            /\ last' = "error"
            /\ UNCHANGED << api_version, replies, rx, deposits >>
       ELSE LET read == Take(rx, IO_SIZE)
                pkg == package \o read
                exp == ExpectedLength(pkg, exp_pkg_len)
                r == RunFrame(pkg, api_version)
            IN  /\ rx' = Drop(rx, IO_SIZE)
                /\ IF ~FullPackage(pkg, exp)
                   THEN /\ package' = pkg
                        /\ exp_pkg_len' = exp
                        /\ rcv_pc' = "select"
                        /\ last' = IF read = << >> THEN "eof" ELSE last
                        /\ UNCHANGED << api_version, replies, deposits >>
                   ELSE /\ package' = << >>
                        /\ exp_pkg_len' = 0
                        /\ api_version' = r.api_version
                        /\ rcv_pc' = IF r.kind \in {"crash", "version"}
                                     THEN "crashed" ELSE "select"
                        /\ last' = r.kind
                        /\ IF r.kind = "deposit"
                           THEN \* with self._cv_sock: ...; notifyAll()
                                /\ SlockCanAcquire(Receiver)
                                /\ replies' = Put(replies, r.id, r.replies)
                                /\ deposits' = deposits \cup {<< FrameMsgId(pkg), r.replies >>}
                           ELSE UNCHANGED << replies, deposits >>
    /\ slock' = NoThread
    /\ UNCHANGED << socket, cur_msg_id, ai_lock, callVars, connVars, wire, net,
                    peer, advertised, srv_frames, allocs, sentlog, respVars >>

\* -------------------------------------------------------- specifications
\* Life cycle: the client from its construction on, with connects,
\* handshakes, disconnects, a server that may go away, the receiver, and
\* callers that send without waiting for replies.
Next ==
    \/ \E c \in Callers : GetAndIncEnter(c)
    \/ \E c \in Callers : GetAndIncExit(c)
    \/ \E c \in Callers : SendWrite(c)
    \/ disconnect
    \/ ConnectStart
    \/ HandshakeRecv
    \/ HandshakeTimeout
    \/ HandshakeFinish
    \/ ServerHello
    \/ NetDeliver
    \/ ServerClose
    \/ RcvSelect
    \/ RcvLock
    \/ RcvRecv

Spec == Init /\ [][Next]_vars

\* The state Linstor.connect leaves behind after its first handshake with a
\* server that advertises version 1: a state of Spec, four steps from Init
\* (ConnectStart, ServerHello, HandshakeRecv, HandshakeFinish).
ConnectedClient ==
    /\ socket = "open"
    /\ api_version = 1
    /\ cur_msg_id = 1
    /\ ai_lock = NoThread
    /\ slock = NoThread
    /\ replies = << >>
    /\ rcv_pc = "select"
    /\ package = << >>
    /\ exp_pkg_len = 0
    /\ pc = [c \in Callers |-> "idle"]
    /\ val = [c \in Callers |-> 0]
    /\ msg_id = [c \in Callers |-> 0]
    /\ full_msg = [c \in Callers |-> << >>]
    /\ sent = [c \in Callers |-> 0]
    /\ result = [c \in Callers |-> << >>]
    /\ err = [c \in Callers |-> "none"]
    /\ conn_pc = "idle"
    /\ api_msg_data = EncodeFrame(API_VERSION, 0, << << 1 >> >>)
    /\ conn_result = "True"
    /\ wire = << >>
    /\ rx = << >>
    /\ net = << >>
    /\ peer = "up"
    /\ advertised = 1
    /\ srv_frames = 0
    /\ connects = 1
    /\ allocs = << >>
    /\ sentlog = << >>
    /\ deposits = {}
    /\ last = "none"

InitConnected ==
    /\ ConnectedClient
    /\ ret_code = 0
    /\ classes = {}
    /\ payload = << >>
    /\ split = << >>

\* Sending on the established connection: callers that send without waiting
\* for replies, a socket that may accept short writes or fail, a server that
\* may go away, disconnect, and the receiver competing for the lock.
SendNext ==
    \/ \E c \in Callers : GetAndIncEnter(c)
    \/ \E c \in Callers : GetAndIncExit(c)
    \/ \E c \in Callers : SendWrite(c)
    \/ \E c \in Callers : SendShort(c)
    \/ \E c \in Callers : SendError(c)
    \/ disconnect
    \/ ServerClose
    \/ RcvSelect
    \/ RcvLock
    \/ RcvRecv

SendSpec == InitConnected /\ [][SendNext]_vars

\* The established session: callers that send and wait, the receiver, a
\* server that answers with whole frames, and disconnect.
SessionNext ==
    \/ \E c \in Callers : GetAndIncEnter(c)
    \/ \E c \in Callers : GetAndIncExit(c)
    \/ \E c \in Callers : SendWrite(c)
    \/ \E c \in Callers : WaitEnter(c)
    \/ \E c \in Callers : WaitLoop(c)
    \/ \E c \in Callers : WaitWake(c)
    \/ disconnect
    \/ ServerSend
    \/ RcvSelect
    \/ RcvLock
    \/ RcvRecv

SessionSpec == InitConnected /\ [][SessionNext]_vars

\* The established session with threads that are scheduled: the receiver
\* thread runs when it can, and a caller inside wait_for_result goes on when
\* it can (wait(1) returns after the poll interval at the latest).  Taking
\* the lock is strongly fair: a waiter leaves it free for the whole of wait(1)
\* and the receiver for the whole of select, so a thread that asks for it
\* again and again gets it.
FairSessionSpec ==
    /\ SessionSpec
    /\ WF_vars(RcvSelect)
    /\ SF_vars(RcvLock)
    /\ WF_vars(RcvRecv)
    /\ \A c \in Callers : WF_vars(WaitLoop(c)) /\ SF_vars(WaitWake(c))

\* The receiving side of the established connection: callers that send, a
\* server whose frames arrive whole or cut and that may go away, and the
\* receiver.
ReceiverNext ==
    \/ \E c \in Callers : GetAndIncEnter(c)
    \/ \E c \in Callers : GetAndIncExit(c)
    \/ \E c \in Callers : SendWrite(c)
    \/ ServerSend
    \/ ServerSendSplit
    \/ ServerSendEmpty
    \/ NetDeliver
    \/ ServerClose
    \/ RcvSelect
    \/ RcvLock
    \/ RcvRecv

ReceiverSpec == InitConnected /\ [][ReceiverNext]_vars

\* Frames in pieces: one caller that sends requests, a server that sends
\* one frame at a time, each reaching the socket in any number of pieces of
\* any size, and the receiver.
SplitNext ==
    \/ GetAndIncEnter("c1")
    \/ GetAndIncExit("c1")
    \/ SendWrite("c1")
    \/ ServerSendLate
    \/ NetDeliverPart
    \/ NetDeliver
    \/ RcvSelect
    \/ RcvLock
    \/ RcvRecv

SplitSpec == InitConnected /\ [][SplitNext]_vars

\* a caller looks at a response it got: is_error(), is_warning(), is_info()
\* and is_success() of the ApiCallResponse
Classify ==
    /\ classes = {}
    /\ classes' = ClassesOf(ret_code)
    /\ UNCHANGED << clientVars, rcvVars, callVars, connVars, envVars, histVars,
                    ret_code, payload, split >>

\* The classification of one response, whatever its return code.
ClassifyInit ==
    /\ ConnectedClient
    /\ ret_code \in 0..MaxRetCode
    /\ classes = {}
    /\ payload = << >>
    /\ split = << >>

ClassifyNext == Classify

ClassifySpec == ClassifyInit /\ [][ClassifyNext]_vars

\* the bytes the payloads are made of: lengths, and varint bytes with the
\* continuation bit set
PayloadBytes == {0, 1, 2, 3, 128, 129}

\* the payloads of up to n bytes
RECURSIVE PayloadsUpTo(_)
PayloadsUpTo(n) ==
    IF n = 0 THEN {<< >>}
    ELSE LET shorter == PayloadsUpTo(n - 1)
         IN  shorter \cup {Append(q, b) : q \in shorter, b \in PayloadBytes}

\* msgs = self._split_proto_msgs(payload)
SplitPayload ==
    /\ split = << >>
    /\ split' = << _split_proto_msgs(payload) >>
    /\ UNCHANGED << clientVars, rcvVars, callVars, connVars, envVars, histVars,
                    ret_code, classes, payload >>

\* One call of _split_proto_msgs, whatever the payload.
PayloadInit ==
    /\ ConnectedClient
    /\ ret_code = 0
    /\ classes = {}
    /\ payload \in PayloadsUpTo(MaxPayload)
    /\ split = << >>

PayloadNext == SplitPayload

PayloadSpec == PayloadInit /\ [][PayloadNext]_vars

\* ----------------------------------------------------------------- claims
Waiting(c) == pc[c] \in {"sent", "wait_loop", "cv_wait"}

\* C1: a reply list that wait_for_result hands to a caller is a list the
\* receiver deposited for a frame carrying the msg_id of that caller's
\* request, and it is the reply the server gave to that msg_id; no caller
\* gets a list deposited for another id.
C1_ReplyCorrelation ==
    \A c \in Callers :
        (pc[c] = "returned" /\ result[c] # << >>) =>
            /\ << msg_id[c], result[c] >> \in deposits
            /\ result[c] = << ReplyBody(msg_id[c]) >>

\* two requests outstanding, the reply to the second id came first: its
\* caller has it while the caller of id 1 is still suspended
C1_Witness ==
    \E c, d \in Callers :
        /\ msg_id[c] = 1 /\ pc[c] = "cv_wait"
        /\ msg_id[d] = 2 /\ pc[d] = "returned" /\ result[d] = << ReplyBody(2) >>

\* C2: once disconnect() has set the socket to None, a caller suspended in
\* wait_for_result for an id without a deposited reply returns the empty
\* list at its next evaluation of the wait loop (its next wake-up), and
\* connected is false then.
C2_DisconnectReleasesWaiter ==
    [][\A c \in Callers :
          (pc[c] = "wait_loop" /\ socket = "none" /\ msg_id[c] \notin DOMAIN replies
           /\ pc'[c] # pc[c])
          => (pc'[c] = "returned" /\ result'[c] = << >> /\ socket' = "none")]_vars

\* disconnect() came while both callers were suspended: one has returned
\* the empty list, the other is still suspended until its poll interval ends
C2_Witness ==
    \E c, d \in Callers :
        /\ socket = "none"
        /\ pc[c] = "returned" /\ result[c] = << >> /\ msg_id[c] \notin DOMAIN replies
        /\ pc[d] = "cv_wait" /\ msg_id[d] \notin DOMAIN replies

\* C3: when the receiver has read EOF (recv returned no bytes, also in the
\* middle of a frame) or recv has raised an I/O error, the session socket is
\* None (so connected is false and waiters return) and the receiver has
\* left its loop.
C3_ReceiverEndsSessionOnEof ==
    (last \in {"eof", "error"}) => (socket = "none" /\ rcv_pc \in {"done", "crashed"})

\* C4: once the receiver has met a frame tagged API_VERSION after the
\* handshake, the session is over: the socket is None, so that waiters
\* return empty lists and a send fails as not connected.
C4_VersionFrameEndsSession ==
    (last = "version") => (socket = "none" /\ \A c \in Callers : pc[c] # "cv_wait")

\* an unknown-tag frame directly followed by the reply to msg_id k
BogusThenReply(k) ==
    EncodeFrame(BOGUS_TAG, 0, << >>)
    \o EncodeFrame(API_REPLY, k, << << ReplyBody(k) >> >>)

\* C5: a complete frame with an unknown tag is dropped and a complete reply
\* frame that arrived after it for a pending msg_id is deposited: when the
\* receiver has processed all it read, it is not left holding these two
\* frames while the caller of that msg_id waits.
C5_UnknownTagFrameDropped ==
    \A c \in Callers :
        ~(rcv_pc = "select" /\ Waiting(c) /\ package = BogusThenReply(msg_id[c]))

\* C6 as claimed: frames are written to the socket in the order of their
\* msg_ids, whoever sent them.
C6_WireOrderIsIdOrder ==
    \A i, j \in 1..Len(sentlog) : i < j => sentlog[i].id < sentlog[j].id

\* C6 as amended: the msg_ids of the frames written are pairwise distinct,
\* and two frames of the same caller are written in the order of their
\* msg_ids.
C6_SameCallerOrder ==
    \A i, j \in 1..Len(sentlog) :
        i < j => /\ sentlog[i].id # sentlog[j].id
                 /\ sentlog[i].c = sentlog[j].c => sentlog[i].id < sentlog[j].id

\* one caller has written two frames
C6_Witness ==
    \E i, j \in 1..Len(sentlog) : i < j /\ sentlog[i].c = sentlog[j].c

\* C7: the allocator starts at 1 and the k-th get_and_inc returns k, so no
\* two calls get the same msg_id, however the callers interleave.
C7_AllocatorAtomic ==
    \A k \in 1..Len(allocs) : allocs[k] = k

\* two callers have allocated, one of them inside get_and_inc right now
C7_Witness ==
    \E c, d \in Callers :
        /\ c # d /\ Len(allocs) >= 2
        /\ msg_id[c] # 0 /\ pc[d] = "ai_inc" /\ ai_lock = d

\* the frames completely written on the current connection, in wire order
RECURSIVE FramesOf(_)
FramesOf(log) ==
    IF Len(log) = 0 THEN << >>
    ELSE (IF Head(log).conn = connects
          THEN EncodeFrame(ApiCallOf(Head(log).c), Head(log).id, BodiesOf(Head(log).c))
          ELSE << >>) \o FramesOf(Tail(log))

\* C8: as long as no write has failed, the bytes on the socket are the
\* frames of the send_msgs calls that returned, one whole frame after the
\* other: K calls, K frames, no frame cut or mixed with another.
C8_FramesIntact ==
    (socket = "open" /\ \A c \in Callers : pc[c] # "sending" /\ err[c] # "socket.error")
        => wire = FramesOf(sentlog)

\* C9: connect returns True only with a complete first frame tagged
\* API_VERSION received, the stored version then is the one that frame
\* advertises and connected is true; and while the handshake is going on
\* the client has written nothing to the socket.
C9_ConnectAfterVersionFrame ==
    [][/\ (conn_pc = "handshake" /\ conn_pc' = "idle" /\ conn_result' = "True")
          => /\ ~HandshakeNeedsMore(api_msg_data)
             /\ advertised \in Versions
             /\ api_version' = advertised
             /\ socket' # "none"
       /\ (conn_pc' = "handshake") => (wire' = << >>)]_vars

\* C10: a send_msgs call that fails ends with NotConnected when the socket
\* is None (and has written nothing) and with NetworkError when the write
\* failed.
C10_SendErrorKinds ==
    \A c \in Callers :
        pc[c] = "failed" => \/ err[c] = "NotConnected" /\ sent[c] = 0
                            \/ err[c] = "NetworkError"

\* C11: an entry of the reply table is written only by the receiver, in its
\* deposit step; an entry leaves the table only in the step in which one
\* wait_for_result call for that id returns it, to that caller and no other;
\* and when wait_for_result(id) returns an entry, the id is not in the table
\* any more.
C11_ReplyTableDiscipline ==
    [][/\ \A k \in DOMAIN replies' :
            (k \notin DOMAIN replies \/ replies'[k] # replies[k])
                => (rcv_pc = "recv" /\ slock = Receiver /\ pc' = pc /\ result' = result)
       /\ \A k \in DOMAIN replies \ DOMAIN replies' :
            \E c \in Callers :
                /\ pc[c] = "wait_loop" /\ slock = c /\ msg_id[c] = k
                /\ pc'[c] = "returned" /\ result'[c] = replies[k]
                /\ \A d \in Callers \ {c} : pc'[d] = pc[d] /\ result'[d] = result[d]
       /\ \A c \in Callers :
            (pc[c] = "wait_loop" /\ pc'[c] = "returned" /\ msg_id[c] \in DOMAIN replies)
                => msg_id[c] \notin DOMAIN replies']_vars

\* one caller has taken its entry out of the table while the entry of the
\* other caller's request is still in it
C11_Witness ==
    \E c, d \in Callers :
        /\ pc[c] = "returned" /\ result[c] = << ReplyBody(msg_id[c]) >>
        /\ msg_id[c] \notin DOMAIN replies
        /\ c # d /\ Waiting(d) /\ msg_id[d] \in DOMAIN replies

\* the caller is inside wait_for_result
InWait(c) == pc[c] \in {"wait_loop", "cv_wait"}

\* the reply frame to msg_id k directly followed by the reply frame to j
TwoReplies(k, j) ==
    EncodeFrame(API_REPLY, k, << << ReplyBody(k) >> >>)
    \o EncodeFrame(API_REPLY, j, << << ReplyBody(j) >> >>)

\* C12: a reply frame for a msg_id that no caller is waiting for does not
\* end the receiver, and the reply that arrived after it for a msg_id a
\* caller is waiting for is deposited: when the receiver has processed all
\* it read, it is not left holding these two frames while that caller waits.
C12_UnawaitedReplyHarmless ==
    /\ (rcv_pc = "crashed" /\ socket # "none") => (last # "deposit")
    /\ \A c \in Callers : \A k \in 1..MaxMsgs :
        ~(/\ rcv_pc = "select" /\ InWait(c) /\ msg_id[c] # k
          /\ \A d \in Callers : ~(InWait(d) /\ msg_id[d] = k)
          /\ package = TwoReplies(k, msg_id[c]))

\* C13: for every return code exactly one of is_error, is_warning, is_info
\* and is_success is true: is_error if the error mask is set, else
\* is_warning if the warning mask is set, else is_info if the info mask is
\* set, else is_success.
C13_ExactlyOneClass ==
    (classes # {}) =>
        classes = {IF BitAnd(ret_code, MASK_ERROR) = MASK_ERROR THEN "is_error"
                   ELSE IF BitAnd(ret_code, MASK_WARN) = MASK_WARN THEN "is_warning"
                   ELSE IF BitAnd(ret_code, MASK_INFO) = MASK_INFO THEN "is_info"
                   ELSE "is_success"}

\* C14: message ids start again with every session: when a connect that
\* follows an earlier session (its receiver thread was started, disconnect()
\* ended it) returns True, with nothing written on the new connection and no
\* send under way or failed, the id the next message gets is 1.
C14_IdsRestartPerSession ==
    [][(/\ conn_pc = "handshake" /\ conn_pc' = "idle" /\ conn_result' = "True"
        /\ rcv_pc # "init"
        /\ wire' = << >>
        /\ \A c \in Callers : err[c] = "none" /\ pc[c] \notin {"ai_inc", "lock", "sending"})
       => cur_msg_id' = 1]_vars

\* the receiver thread has been started and is in the loop of run()
ReceiverRunning == rcv_pc \in {"select", "lock", "recv"}

\* C15: in every state the receiver thread is running if and only if the
\* socket is not None: during and after connect, after disconnect, and
\* after the receiver has stopped for whatever reason.
C15_ReceiverRunsIffSocket == ReceiverRunning <=> (socket # "none")

\* C16: when the accumulator holds at least 16 + N bytes, N > 0 the payload
\* length its header declares, 16 + N bytes are taken out and dispatched as
\* one frame and the excess is kept for the next: once the receiver is done
\* with a read, the accumulator does not hold a complete frame.
C16_CompleteFrameDispatched ==
    (rcv_pc = "select" /\ Len(package) >= 16 /\ exp_pkg_len > 0)
        => Len(package) < 16 + exp_pkg_len

\* the bytes of the server that have not been dispatched: in the
\* accumulator, in the socket, in the network
Pending == package \o rx \o net

\* b is one whole frame: 16 bytes of header and the N bytes it declares
IsWholeFrame(b) ==
    Len(b) >= 16 /\ Len(b) = 16 + _parse_payload_length(Take(b, 16))

\* C17: however the bytes of a frame are cut into reads, the frame is
\* dispatched once, when its last byte has been read and not before: the
\* bytes not dispatched are none or one whole frame; once all of them are
\* read the accumulator is empty again and the expected length reset; and a
\* frame sent and no more pending has been dispatched.
C17_SplitReads ==
    /\ Pending = << >> \/ IsWholeFrame(Pending)
    /\ (rcv_pc = "select" /\ rx = << >> /\ net = << >>) => package = << >>
    /\ (package = << >>) => exp_pkg_len = 0
    /\ (exp_pkg_len # 0) => exp_pkg_len = _parse_payload_length(Take(package, 16))
    /\ (srv_frames > 0 /\ Pending = << >>) => last \in {"deposit", "unknown", "version"}

\* a reply frame has been dispatched, and of the next frame the receiver
\* has read the first byte only, the rest being on its way in two pieces
C17_Witness ==
    /\ last = "deposit" /\ rcv_pc = "select"
    /\ Len(package) = 1 /\ exp_pkg_len = 0
    /\ rx # << >> /\ net # << >>

\* C18: when the socket accepts fewer bytes than it is offered, send_msgs
\* goes on until the socket has accepted the frame, each byte once and in
\* order: when the call has returned, the socket has accepted as many bytes
\* in it as the frame has, and with one call made the bytes on the socket
\* are the frame.
C18_ShortWriteResumes ==
    \A c \in Callers :
        (pc[c] = "sent" /\ socket = "open") =>
            /\ sent[c] = Len(full_msg[c])
            /\ (Len(allocs) = 1) => wire = full_msg[c]

\* C19: a frame whose header declares a payload of 0 bytes is rejected as
\* malformed and the receiver goes on with the frames after it: once the
\* receiver is done with a read, the accumulator does not begin with that
\* header.
C19_EmptyFrameRejected ==
    (rcv_pc = "select" /\ Len(package) >= 16) => Take(package, 16) # EmptyFrame


\* the payload from position n on is sub-messages, each a varint and as
\* many bytes as the varint says, up to the last byte of the payload
RECURSIVE WellFormedFrom(_, _)
WellFormedFrom(p, n) ==
    IF n = Len(p) THEN TRUE
    ELSE LET d == _DecodeVarint32(p, n)
         IN  d.ok /\ d.pos + d.val <= Len(p) /\ WellFormedFrom(p, d.pos + d.val)

\* C20: _split_proto_msgs fails when a varint runs off the end of the
\* payload, when a decoded length exceeds the bytes that remain, or when the
\* scan does not end at the length of the payload: a call that returns a
\* list was given a well-formed payload.
C20_SplitRejectsMalformed ==
    (split # << >> /\ split[1].ok) => WellFormedFrom(payload, 0)


\* C21: after disconnect() the receiver ends: with the socket None its next
\* step is out of the loop (from the readability poll) or back to the loop
\* check (from the wait for the lock), it never is in recv, and it neither
\* reads from the socket nor deposits a reply.
C21_ReceiverExitsAfterDisconnect ==
    [][/\ (socket' = "none") => (rcv_pc' # "recv")
       /\ (socket = "none" /\ ReceiverRunning /\ rcv_pc' # rcv_pc)
            => /\ \/ rcv_pc = "select" /\ rcv_pc' \in {"done", "crashed"}
                  \/ rcv_pc = "lock" /\ rcv_pc' = "select"
               /\ UNCHANGED << replies, deposits, package, exp_pkg_len, rx, last >>]_vars

\* disconnect() came while the receiver was waiting for the lock with a
\* reply to read, after an earlier deposit: the receiver has ended, the
\* second reply was never read
C21_Witness ==
    /\ socket = "none" /\ rcv_pc \in {"done", "crashed"}
    /\ Cardinality(deposits) = 1 /\ srv_frames = 2 /\ last = "deposit"


\* C22: the receiver does not hold the session lock while it reads from the
\* socket and splits and parses a frame: no sender that has its frame ready
\* finds the lock held by the receiver that is about to call recv.
C22_ReceiverParsesWithoutLock ==
    \A c \in Callers :
        ~(pc[c] = "lock" /\ rcv_pc = "recv" /\ slock = Receiver)


\* C23: after a connect that did not return True (the connection was not
\* made, the handshake timed out, the first frame was not tagged
\* API_VERSION or had no version sub-message) the socket is None, and so
\* connected is false.
C23_FailedConnectLeavesNoSocket ==
    (conn_pc = "idle" /\ conn_result \notin {"none", "True"})
        => (socket = "none" /\ ~connected)


\* the socket buffer ends with the bytes of frame f: f has just arrived
RxEndsWith(f) == Len(rx) >= Len(f) /\ Drop(rx, Len(rx) - Len(f)) = f

\* C24: in a session that stays connected, when the server's reply frame to
\* the msg_id a caller is waiting for has arrived, the caller's
\* wait_for_result eventually returns that reply, whatever frames arrived
\* before it or arrive after it (receiver and caller being scheduled).
C24_ReplyEventuallyReturned ==
    \A c \in Callers :
        (InWait(c) /\ RxEndsWith(EncodeFrame(API_REPLY, msg_id[c], << << ReplyBody(msg_id[c]) >> >>)))
            ~> (\/ pc[c] = "returned" /\ result[c] = << ReplyBody(msg_id[c]) >>
                \/ socket = "none")


\* the thread that holds the lock is inside its with-block at a step that
\* waits for nothing: the receiver reads a socket that has bytes, a sender
\* is between two send calls, a waiter evaluates its loop
HolderRuns ==
    /\ slock \in {NoThread, Receiver} \cup Callers
    /\ slock = Receiver => (rcv_pc = "recv" /\ rx # << >>)
    /\ \A c \in Callers : slock = c => pc[c] \in {"sending", "wait_loop"}
    /\ rcv_pc = "recv" => slock = Receiver
    /\ \A c \in Callers : pc[c] \in {"sending", "wait_loop"} => slock = c

\* C25: senders, the receiver, waiters and disconnect synchronise on the one
\* re-entrant lock and never deadlock on it: whenever the lock is held its
\* holder is a thread that runs inside its with-block and can take its next
\* step (so never is every thread blocked on the lock), and a caller
\* suspended in the condition wait does not hold the lock.
C25_NoLockDeadlock ==
    /\ HolderRuns
    /\ \A c \in Callers : pc[c] = "cv_wait" => slock # c

\* the receiver reads with the lock held while one caller stands at the
\* with of send_msgs and the other is suspended in wait(1)
C25_Witness ==
    \E c, d \in Callers :
        /\ slock = Receiver /\ rcv_pc = "recv"
        /\ pc[c] = "lock" /\ pc[d] = "cv_wait"


\* the receiver has deposited a reply list for the id
Deposited(id) == \E d \in deposits : d[1] = id

\* C26: a reply deposited before disconnect() is not lost: disconnect leaves
\* the reply table as it is, and a caller that evaluates the loop of
\* wait_for_result with the socket None returns the list deposited for its
\* id if one was deposited, and the empty list only if none was.
C26_DepositSurvivesDisconnect ==
    [][/\ (socket # "none" /\ socket' = "none") => replies' = replies
       /\ \A c \in Callers :
            (socket = "none" /\ pc[c] = "wait_loop" /\ pc'[c] # pc[c])
                => /\ pc'[c] = "returned"
                   /\ IF Deposited(msg_id[c])
                      THEN << msg_id[c], result'[c] >> \in deposits /\ result'[c] # << >>
                      ELSE result'[c] = << >>]_vars

\* after the disconnect one caller has got the reply deposited for its id,
\* the other stands before the loop test with its reply in the table
C26_Witness ==
    \E c, d \in Callers :
        /\ socket = "none"
        /\ pc[c] = "returned" /\ result[c] = << ReplyBody(msg_id[c]) >>
        /\ pc[d] = "wait_loop" /\ msg_id[d] \in DOMAIN replies /\ msg_id[d] # msg_id[c]

====
